---- MODULE Spec2Model ----
(***************************************************************************)
(* A model of the pdf-hb utilities: pdf_merger.py (PDFMerger, its command  *)
(* line mode and its interactive modes), simple_pdf_merger.py and          *)
(* rename_pdfs.py.                                                         *)
(*                                                                         *)
(* File names are sequences of Unicode code points, so that the regular    *)
(* expressions, the lexicographic order of sorted() and the f-string       *)
(* formatting of the scripts are computed character by character.          *)
(* A file's content is the sequence of its pages; a page is the pair       *)
(* <<name of the file it was first in, page number>>.                      *)
(***************************************************************************)
EXTENDS Integers, Sequences, FiniteSets, TLC

VARIABLES
    prog,       \* the entry point that runs
    os_name,    \* the platform of os.rename: "posix" or "nt"
    fs,         \* the directory: file name -> content (sequence of pages)
    listing,    \* the order in which glob / listdir enumerates the directory
    pdf_files,  \* the sorted snapshot (PDFMerger.pdf_files, pdf_files, files)
    args,       \* the flags of the run, or the answers given to a batch prompt
    pc,         \* position of the run
    i,          \* loop index of the running for loop
    rounds,     \* menu choices served by interactive_mode so far
    merges,     \* history: one record per call of merge_pdfs
    renames,    \* history: one record per call of os.rename
    printed     \* the kinds of message printed so far

vars == <<prog, os_name, fs, listing, pdf_files, args, pc, i, rounds,
          merges, renames, printed>>

---------------------------------------------------------------------------
(* Bounds of the model *)

MaxFiles == 3
PagesPerFile == 2
MaxCount == 2
MaxVolume == 2
MaxEntries == 3
MaxReadFailures == 1
MaxRounds == 1

---------------------------------------------------------------------------
(* Characters and strings *)

DotPdf == <<46, 112, 100, 102>>                \* ".pdf"
Juan == <<21367>>                              \* "卷"
Di == <<31532>>                                \* "第"
HeBingBan == <<21512, 24182, 29256, 95>>       \* "合并版_"
Hyphen == <<45>>                               \* "-"

IsDigit(c) == c \in 48..57

RECURSIVE DigitRunEnd(_, _)
\* the last index of the maximal digit run of s that starts at index b
DigitRunEnd(s, b) ==
    IF b < Len(s) /\ IsDigit(s[b + 1]) THEN DigitRunEnd(s, b + 1) ELSE b

RECURSIVE findall_digits(_, _)
\* re.findall(r'\d+', s) from index b on: every maximal digit run, left to right
findall_digits(s, b) ==
    IF b > Len(s) THEN <<>>
    ELSE IF IsDigit(s[b])
         THEN LET e == DigitRunEnd(s, b)
              IN  <<SubSeq(s, b, e)>> \o findall_digits(s, e + 1)
         ELSE findall_digits(s, b + 1)

RECURSIVE int(_)
\* int() of a string of decimal digits
int(d) ==
    IF d = <<>> THEN 0
    ELSE int(SubSeq(d, 1, Len(d) - 1)) * 10 + (d[Len(d)] - 48)

RECURSIVE StrNat(_)
StrNat(n) == IF n < 10 THEN <<48 + n>> ELSE StrNat(n \div 10) \o <<48 + (n % 10)>>

\* f"{n}" of an integer
Str(n) == IF n < 0 THEN Hyphen \o StrNat(-n) ELSE StrNat(n)

RECURSIVE ZeroFill(_, _)
ZeroFill(s, width) == IF Len(s) >= width THEN s ELSE ZeroFill(<<48>> \o s, width)

\* f"{n:03d}": sign first, then zeros up to a total width of 3
Pad3(n) ==
    IF n < 0 THEN Hyphen \o ZeroFill(StrNat(-n), 2) ELSE ZeroFill(StrNat(n), 3)

RECURSIVE LexLess(_, _)
\* a < b for Python strings: code point by code point, a proper prefix is smaller
LexLess(a, b) ==
    IF b = <<>> THEN FALSE
    ELSE IF a = <<>> THEN TRUE
    ELSE IF a[1] # b[1] THEN a[1] < b[1]
    ELSE LexLess(Tail(a), Tail(b))

---------------------------------------------------------------------------
(* Python lists *)

\* lst[k] is defined (no IndexError) for Python's 0-based and negative indices
PyIndexOk(lst, k) == (0 <= k /\ k < Len(lst)) \/ (k < 0 /\ -k <= Len(lst))

\* lst[k] where it is defined
PyIndex(lst, k) == IF k >= 0 THEN lst[k + 1] ELSE lst[Len(lst) + k + 1]

PyClamp(lst, k) ==
    IF k < 0 THEN (IF Len(lst) + k < 0 THEN 0 ELSE Len(lst) + k)
    ELSE IF k > Len(lst) THEN Len(lst) ELSE k

\* lst[a:b] with Python's 0-based and negative bounds
PySlice(lst, a, b) == SubSeq(lst, PyClamp(lst, a) + 1, PyClamp(lst, b))

Min2(a, b) == IF a <= b THEN a ELSE b

Range(s) == {s[k] : k \in DOMAIN s}

\* a // b of Python for b # 0: the floor of the quotient
PyFloorDiv(a, b) == IF b > 0 THEN a \div b ELSE (-a) \div (-b)

RECURSIVE Concat(_)
\* the pages of several documents, one after the other
Concat(ss) == IF ss = <<>> THEN <<>> ELSE Head(ss) \o Concat(Tail(ss))

\* optional values: None is <<>>, a value v is <<v>>; Truthy is Python's truth test
None == <<>>
Some(v) == <<v>>
TruthyInt(o) == o # None /\ o[1] # 0
TruthyStr(o) == o # None /\ Len(o[1]) > 0

---------------------------------------------------------------------------
(* The directory *)

A1Pdf == <<97, 49>> \o DotPdf                  \* "a1.pdf"
A2Pdf == <<97, 50>> \o DotPdf                  \* "a2.pdf"
A3Pdf == <<97, 51>> \o DotPdf                  \* "a3.pdf"
APdf == <<97>> \o DotPdf                       \* "a.pdf"
B2C7Pdf == <<98, 50, 99, 55>> \o DotPdf        \* "b2c7.pdf"
Juan1Pdf == Juan \o <<49>> \o DotPdf           \* "卷1.pdf"
OutPdf == <<111, 117, 116>> \o DotPdf          \* "out.pdf"
Out == <<111, 117, 116>>                       \* "out"
QuanJiPdf == <<20840, 38598>> \o DotPdf        \* "全集.pdf"

\* the *.pdf files a folder may hold
PdfNames == {A1Pdf, A2Pdf, A3Pdf, APdf, B2C7Pdf, Juan1Pdf}

\* the content a file has before the run: PagesPerFile pages of its own
OrigContent(name) == [p \in 1..PagesPerFile |-> <<name, p>>]

\* every order in which at most n of the names can be enumerated
Listings(names, n) ==
    {s \in UNION {[1..k -> names] : k \in 0..n} :
        \A a, b \in DOMAIN s : a # b => s[a] # s[b]}

\* open(path, 'wb') and write: the file is created or replaced
WriteFile(dir, name, content) ==
    [x \in DOMAIN dir \cup {name} |-> IF x = name THEN content ELSE dir[x]]

\* What reading the sources of one merge can do: a function from the positions
\* whose read raises (PdfReader(path), or a page of reader.pages) to the number
\* of pages already added to the writer when it raises.
ReadOutcomes(files) ==
    UNION {{o \in [S -> 0..(PagesPerFile - 1)] :
                \A k \in S : o[k] = 0 \/ o[k] < Len(fs[files[k]])} :
           S \in {T \in SUBSET DOMAIN files : Cardinality(T) <= MaxReadFailures}}

\* the pages source k adds to the writer under outcome o
PagesAdded(files, o, k) ==
    IF k \in DOMAIN o THEN SubSeq(fs[files[k]], 1, o[k]) ELSE fs[files[k]]

---------------------------------------------------------------------------
(* pdf_merger.py: class PDFMerger *)

\* _extract_number taking the last digit run of the name instead of the first
extract_number_last_run(filename) ==
    LET numbers == findall_digits(filename, 1)
    IN  IF numbers # <<>> THEN int(numbers[Len(numbers)]) ELSE 0

\* PDFMerger._extract_number
_extract_number(filename) ==
    LET numbers == findall_digits(filename, 1)
    IN  IF numbers # <<>> THEN int(numbers[1]) ELSE 0

RECURSIVE InsertByKey(_, _)
\* insertion of a <<key, item>> pair behind every pair whose key is not larger
InsertByKey(sorted, p) ==
    IF sorted = <<>> THEN <<p>>
    ELSE IF p[1] < Head(sorted)[1] THEN <<p>> \o sorted
    ELSE <<Head(sorted)>> \o InsertByKey(Tail(sorted), p)

RECURSIVE list_sort(_)
\* list.sort(key=...) on <<key, item>> pairs: ascending by key, stable
list_sort(ps) ==
    IF ps = <<>> THEN <<>>
    ELSE InsertByKey(list_sort(SubSeq(ps, 1, Len(ps) - 1)), ps[Len(ps)])

\* PDFMerger._get_pdf_files on the enumeration glob("*.pdf") gave
_get_pdf_files(glob) ==
    LET keyed == [k \in DOMAIN glob |-> <<_extract_number(glob[k]), glob[k]>>]
        sorted == list_sort(keyed)
    IN  [k \in DOMAIN sorted |-> sorted[k][2]]

\* the slice merge_pdfs takes: pdf_files[start_index:end_index]
files_to_merge(start_index, count) ==
    PySlice(pdf_files, start_index, Min2(start_index + count, Len(pdf_files)))

\* PDFMerger.merge_pdfs under read outcome o: what it returns, prints and writes
merge_pdfs(start_index, count, output_name, o) ==
    LET files == files_to_merge(start_index, count)
        call == [by |-> "PDFMerger", start |-> start_index, count |-> count,
                 output |-> output_name]
    IN  IF start_index < 0 \/ start_index >= Len(pdf_files)
        THEN call @@ [files |-> <<>>, contents |-> <<>>, ret |-> "False",
                      wrote |-> FALSE, pages |-> <<>>, failed |-> {}, warned |-> {},
                      msgs |-> {"error: start index out of range"}]
        ELSE IF files = <<>>
        THEN call @@ [files |-> <<>>, contents |-> <<>>, ret |-> "False",
                      wrote |-> FALSE, pages |-> <<>>, failed |-> {}, warned |-> {},
                      msgs |-> {"error: no files to merge"}]
        ELSE call @@ [files |-> files,
                      contents |-> [k \in DOMAIN files |-> fs[files[k]]],
                      ret |-> "True", wrote |-> TRUE,
                      pages |-> Concat([k \in DOMAIN files |-> PagesAdded(files, o, k)]),
                      failed |-> {files[k] : k \in DOMAIN o},
                      warned |-> {files[k] : k \in DOMAIN o},
                      msgs |-> {"merged"} \cup
                               (IF DOMAIN o # {} THEN {"warning: read failed"} ELSE {})]

\* the index generate_filename computes for the last file of the group
end_index_of(start_index, count) ==
    Min2(start_index + count, Len(pdf_files)) - 1

\* generate_filename returns (raises no IndexError)
generate_filename_ok(start_index, count, naming_mode) ==
    naming_mode \in {"range", "custom"} =>
        /\ PyIndexOk(pdf_files, start_index)
        /\ PyIndexOk(pdf_files, end_index_of(start_index, count))

\* PDFMerger.generate_filename; volume_number is None when the caller omits it
generate_filename(start_index, count, naming_mode, volume_number) ==
    LET end_index == end_index_of(start_index, count)
        start_num == _extract_number(PyIndex(pdf_files, start_index))
        end_num == _extract_number(PyIndex(pdf_files, end_index))
    IN  CASE naming_mode = "range" ->
                Pad3(start_num) \o Hyphen \o Pad3(end_num) \o DotPdf
          [] naming_mode = "volume" ->
                LET vol_num == IF TruthyInt(volume_number) THEN volume_number[1] ELSE 1
                IN  Juan \o Str(vol_num) \o DotPdf
          [] naming_mode = "custom" ->
                HeBingBan \o Pad3(start_num) \o Hyphen \o Pad3(end_num) \o DotPdf
          [] OTHER ->
                <<109, 101, 114, 103, 101, 100, 95>> \o Str(start_index + 1)
                    \o Hyphen \o Str(end_index + 1) \o DotPdf

\* the effect of one call of merge_pdfs whose outcome is the record r
Merged(r) ==
    /\ fs' = IF r.wrote THEN WriteFile(fs, r.output, r.pages) ELSE fs
    /\ merges' = Append(merges, r)
    /\ printed' = printed \cup r.msgs

\* an exception nobody catches ends the script with a traceback
Crash(exception) ==
    /\ pc' = "crashed"
    /\ printed' = printed \cup {exception}

---------------------------------------------------------------------------
(* pdf_merger.py: the entry points *)

CountInputs == {Some(c) : c \in (-MaxCount)..MaxCount}
VolumeInputs == {None} \cup {Some(v) : v \in (-1)..MaxVolume}
NamingInputs ==
    {<<"range", None>>, <<"custom", None>>} \cup {<<"volume", v>> : v \in VolumeInputs}
OutputInputs == {Some(OutPdf), Some(A2Pdf)}

\* the flags of a run of command_line_mode (argparse gives --start 1 and
\* --naming range when they are absent)
CommandLines ==
    {[count |-> c, start |-> 1, naming |-> n[1], volume |-> n[2], output |-> None] :
        c \in CountInputs \ {Some(0)}, n \in NamingInputs}
    \cup
    {[count |-> c, start |-> s, naming |-> "range", volume |-> None, output |-> out] :
        c \in {None, Some(0)}, s \in 0..(MaxFiles + 1), out \in OutputInputs}
    \cup
    {[count |-> c, start |-> 1, naming |-> "range", volume |-> None, output |-> None] :
        c \in {None, Some(0)}}

\* PDFMerger.__init__: the snapshot of the folder
PDFMerger_init ==
    /\ pc = "init"
    /\ prog \in {"command_line_mode", "interactive_mode"}
    /\ pdf_files' = _get_pdf_files(listing)
    /\ pc' = "constructed"
    /\ UNCHANGED <<prog, os_name, fs, listing, args, i, rounds, merges, renames, printed>>

\* groups = (total_files + count - 1) // count
groups_of(total_files, count) == PyFloorDiv(total_files + count - 1, count)

\* command_line_mode up to its for loop, or all of it when there is none
command_line_mode ==
    /\ pc = "constructed"
    /\ prog = "command_line_mode"
    /\ \E a \in CommandLines :
        /\ args' = a
        /\ IF pdf_files = <<>>
           THEN /\ printed' = printed \cup {"no PDF files found"}
                /\ pc' = "done"
                /\ UNCHANGED <<fs, merges, i>>
           ELSE IF TruthyInt(a.count)
           THEN /\ pc' = IF groups_of(Len(pdf_files), a.count[1]) > 0
                         THEN "batch" ELSE "done"
                /\ i' = 0
                /\ UNCHANGED <<fs, merges, printed>>
           ELSE IF TruthyStr(a.output)
           THEN LET start_idx == a.start - 1
                    count == Len(pdf_files) - start_idx
                IN  /\ \E o \in ReadOutcomes(files_to_merge(start_idx, count)) :
                          Merged(merge_pdfs(start_idx, count, a.output[1], o)
                                 @@ [naming |-> "output", volume |-> None, group |-> 0])
                    /\ pc' = "done"
                    /\ UNCHANGED i
           ELSE /\ pc' = "done"
                /\ UNCHANGED <<fs, merges, printed, i>>
    /\ UNCHANGED <<prog, os_name, listing, pdf_files, rounds, renames>>

\* one pass of the for loop of command_line_mode
command_line_batch ==
    /\ pc = "batch"
    /\ prog = "command_line_mode"
    /\ LET total_files == Len(pdf_files)
           count == args.count[1]
           groups == groups_of(total_files, count)
           start_idx == i * count
           actual_count == Min2(count, total_files - start_idx)
           vol_num == IF args.naming = "volume"
                      THEN Some((IF TruthyInt(args.volume) THEN args.volume[1] ELSE 1) + i)
                      ELSE None
       IN  IF ~generate_filename_ok(start_idx, actual_count, args.naming)
           THEN /\ Crash("IndexError")
                /\ UNCHANGED <<fs, merges, i>>
           ELSE LET filename ==
                        generate_filename(start_idx, actual_count, args.naming, vol_num)
                IN  /\ \E o \in ReadOutcomes(files_to_merge(start_idx, actual_count)) :
                          Merged(merge_pdfs(start_idx, actual_count, filename, o)
                                 @@ [naming |-> args.naming, volume |-> vol_num,
                                     group |-> i])
                    /\ i' = i + 1
                    /\ pc' = IF i + 1 < groups THEN "batch" ELSE "done"
    /\ UNCHANGED <<prog, os_name, listing, pdf_files, args, rounds, renames>>

\* interactive_mode up to its menu
interactive_mode ==
    /\ pc = "constructed"
    /\ prog = "interactive_mode"
    /\ IF pdf_files = <<>>
       THEN /\ printed' = printed \cup {"no PDF files found"}
            /\ pc' = "done"
       ELSE /\ pc' = "menu"
            /\ UNCHANGED printed
    /\ UNCHANGED <<prog, os_name, fs, listing, pdf_files, args, i, rounds, merges, renames>>

\* choice 4 of the menu, and any other text
menu_exit ==
    /\ pc = "menu"
    /\ prog = "interactive_mode"
    /\ \/ /\ pc' = "done"
          /\ UNCHANGED <<printed, rounds>>
       \/ /\ rounds < MaxRounds
          /\ rounds' = rounds + 1
          /\ printed' = printed \cup {"invalid choice"}
          /\ UNCHANGED pc
    /\ UNCHANGED <<prog, os_name, fs, listing, pdf_files, args, i, merges, renames>>

\* what int(input(...)) can be given: a number, or None for text that is none
TypedCounts == {None} \cup CountInputs

\* batch_merge_mode up to its second for loop (the first only prints the names)
batch_merge_mode ==
    /\ pc = "menu"
    /\ prog = "interactive_mode"
    /\ rounds < MaxRounds
    /\ rounds' = rounds + 1
    /\ \E typed \in TypedCounts, naming_mode \in {"range", "volume", "custom"},
          confirm \in {"y", "n"} :
        IF typed = None
        THEN /\ printed' = printed \cup {"error: not a number"}
             /\ UNCHANGED <<pc, args, i>>
        ELSE LET files_per_group == typed[1] IN
             IF files_per_group <= 0
             THEN /\ printed' = printed \cup {"error: count must be positive"}
                  /\ args' = [count |-> typed]
                  /\ UNCHANGED <<pc, i>>
             ELSE IF confirm = "y"
             THEN /\ args' = [count |-> typed, naming |-> naming_mode]
                  /\ i' = 0
                  /\ pc' = "batch"
                  /\ UNCHANGED printed
             ELSE UNCHANGED <<pc, args, i, printed>>
    /\ UNCHANGED <<prog, os_name, fs, listing, pdf_files, merges, renames>>

\* one pass of the second for loop of batch_merge_mode
batch_merge_loop ==
    /\ pc = "batch"
    /\ prog = "interactive_mode"
    /\ LET files_per_group == args.count[1]
           total_files == Len(pdf_files)
           groups == groups_of(total_files, files_per_group)
           start_idx == i * files_per_group
           actual_count == Min2(files_per_group, total_files - start_idx)
           volume == IF args.naming = "volume" THEN Some(i + 1) ELSE None
           filename == generate_filename(start_idx, actual_count, args.naming, volume)
       IN  /\ \E o \in ReadOutcomes(files_to_merge(start_idx, actual_count)) :
                 LET r == merge_pdfs(start_idx, actual_count, filename, o)
                          @@ [naming |-> args.naming, volume |-> volume, group |-> i]
                 IN  /\ fs' = IF r.wrote THEN WriteFile(fs, r.output, r.pages) ELSE fs
                     /\ merges' = Append(merges, r)
                     /\ printed' = printed \cup r.msgs \cup
                            (IF i + 1 < groups THEN {} ELSE {"batch merge finished"})
           /\ i' = i + 1
           /\ pc' = IF i + 1 < groups THEN "batch" ELSE "menu"
    /\ UNCHANGED <<prog, os_name, listing, pdf_files, args, rounds, renames>>

\* range_merge_mode; the start typed is 1-based
range_merge_mode ==
    /\ pc = "menu"
    /\ prog = "interactive_mode"
    /\ rounds < MaxRounds
    /\ rounds' = rounds + 1
    /\ \E typed_start \in 0..(MaxFiles + 1), typed_count \in TypedCounts,
          n \in NamingInputs, confirm \in {"y", "n"} :
        LET start == typed_start - 1 IN
        IF typed_count = None
        THEN /\ printed' = printed \cup {"error: not a number"}
             /\ UNCHANGED <<fs, merges>>
        ELSE IF start < 0 \/ start >= Len(pdf_files)
        THEN /\ printed' = printed \cup {"error: start index out of range"}
             /\ UNCHANGED <<fs, merges>>
        ELSE IF typed_count[1] <= 0
        THEN /\ printed' = printed \cup {"error: count must be positive"}
             /\ UNCHANGED <<fs, merges>>
        ELSE IF n[1] = "volume" /\ n[2] = None
        THEN /\ printed' = printed \cup {"error: not a number"}
             /\ UNCHANGED <<fs, merges>>
        ELSE IF confirm = "y"
        THEN LET count == typed_count[1]
                 filename == generate_filename(start, count, n[1], n[2])
             IN  \E o \in ReadOutcomes(files_to_merge(start, count)) :
                     Merged(merge_pdfs(start, count, filename, o)
                            @@ [naming |-> n[1], volume |-> n[2], group |-> 0])
        ELSE UNCHANGED <<fs, merges, printed>>
    /\ UNCHANGED <<prog, os_name, listing, pdf_files, args, pc, i, renames>>

\* merge_all_mode; its int(input(...)) is outside any try
merge_all_mode ==
    /\ pc = "menu"
    /\ prog = "interactive_mode"
    /\ rounds < MaxRounds
    /\ rounds' = rounds + 1
    /\ \E n \in NamingInputs, confirm \in {"y", "n"} :
        IF n[1] = "volume" /\ n[2] = None
        THEN /\ Crash("ValueError")
             /\ UNCHANGED <<fs, merges>>
        ELSE IF confirm = "y"
        THEN LET count == Len(pdf_files)
                 filename == generate_filename(0, count, n[1], n[2])
             IN  /\ \E o \in ReadOutcomes(files_to_merge(0, count)) :
                       Merged(merge_pdfs(0, count, filename, o)
                              @@ [naming |-> n[1], volume |-> n[2], group |-> 0])
                 /\ UNCHANGED pc
        ELSE UNCHANGED <<fs, merges, printed, pc>>
    /\ UNCHANGED <<prog, os_name, listing, pdf_files, args, i, renames>>

---------------------------------------------------------------------------
(* simple_pdf_merger.py *)

\* the key of the sort in get_pdf_files
sort_key(name) ==
    IF findall_digits(name, 1) # <<>> THEN int(findall_digits(name, 1)[1]) ELSE 0

\* get_pdf_files on the enumeration glob("*.pdf") gave
get_pdf_files(glob) ==
    LET keyed == [k \in DOMAIN glob |-> <<sort_key(glob[k]), glob[k]>>]
        sorted == list_sort(keyed)
    IN  [k \in DOMAIN sorted |-> sorted[k][2]]

\* merge_pdfs(files, output_name) of the simple merger under read outcome o:
\* a read that raises is caught nowhere in it, so nothing is written (main
\* ends there, whichever of its handlers catches the exception)
simple_merge_pdfs(files, output_name, o) ==
    [by |-> "simple", files |-> files,
     contents |-> [k \in DOMAIN files |-> fs[files[k]]],
     output |-> output_name] @@
    IF DOMAIN o # {}
    THEN [ret |-> "raised", wrote |-> FALSE, pages |-> <<>>,
          failed |-> {files[k] : k \in {j \in DOMAIN o : \A h \in DOMAIN o : j <= h}},
          warned |-> {}, msgs |-> {"merging"}]
    ELSE [ret |-> "None", wrote |-> TRUE,
          pages |-> Concat([k \in DOMAIN files |-> fs[files[k]]]),
          failed |-> {}, warned |-> {}, msgs |-> {"merging", "merged"}]

\* the handler of the __main__ block: except Exception prints and the script ends
Abort(exception) ==
    /\ pc' = "aborted"
    /\ printed' = printed \cup {"error occurred", exception}

\* one call of the simple merge_pdfs from main, whose record is r
SimpleMerged(r, then) ==
    /\ fs' = IF r.wrote THEN WriteFile(fs, r.output, r.pages) ELSE fs
    /\ merges' = Append(merges, r)
    /\ IF r.ret = "raised"
       THEN Abort("PdfReadError")
       ELSE /\ printed' = printed \cup r.msgs
            /\ pc' = then

\* int(re.findall(r'\d+', name)[0]) returns (raises no IndexError)
first_number_ok(name) == findall_digits(name, 1) # <<>>
first_number(name) == int(findall_digits(name, 1)[1])

\* the range name of main: start_num and end_num of the first and last file
range_name_ok(group_files) ==
    /\ group_files # <<>>
    /\ first_number_ok(group_files[1])
    /\ first_number_ok(group_files[Len(group_files)])

range_name(group_files) ==
    Pad3(first_number(group_files[1])) \o Hyphen
        \o Pad3(first_number(group_files[Len(group_files)])) \o DotPdf

\* main up to its menu
simple_main ==
    /\ pc = "init"
    /\ prog = "simple_main"
    /\ pdf_files' = get_pdf_files(listing)
    /\ IF pdf_files' = <<>>
       THEN /\ printed' = printed \cup {"no PDF files found"}
            /\ pc' = "done"
       ELSE /\ pc' = "menu"
            /\ UNCHANGED printed
    /\ UNCHANGED <<prog, os_name, fs, listing, args, i, rounds, merges, renames>>

\* choice 1 of main up to its for loop
simple_batch ==
    /\ pc = "menu"
    /\ prog = "simple_main"
    /\ \E typed \in TypedCounts, naming \in {"1", "2"} :
        IF typed = None
        THEN /\ printed' = printed \cup {"error: not a number"}
             /\ pc' = "done"
             /\ UNCHANGED <<args, i>>
        ELSE IF typed[1] = 0
        THEN /\ Abort("ZeroDivisionError")
             /\ args' = [count |-> typed]
             /\ UNCHANGED i
        ELSE /\ args' = [count |-> typed, naming |-> naming]
             /\ i' = 0
             /\ pc' = IF groups_of(Len(pdf_files), typed[1]) > 0 THEN "batch" ELSE "done"
             /\ UNCHANGED printed
    /\ UNCHANGED <<prog, os_name, fs, listing, pdf_files, rounds, merges, renames>>

\* one pass of the for loop of choice 1
simple_batch_loop ==
    /\ pc = "batch"
    /\ prog = "simple_main"
    /\ LET count == args.count[1]
           total_groups == groups_of(Len(pdf_files), count)
           start_idx == i * count
           end_idx == Min2(start_idx + count, Len(pdf_files))
           group_files == PySlice(pdf_files, start_idx, end_idx)
           then == IF i + 1 < total_groups THEN "batch" ELSE "done"
       IN  IF args.naming = "2"
           THEN \E o \in ReadOutcomes(group_files) :
                    SimpleMerged(simple_merge_pdfs(group_files,
                                     Di \o Str(i + 1) \o Juan \o DotPdf, o)
                                 @@ [start |-> start_idx, count |-> count,
                                     naming |-> "volume", volume |-> Some(i + 1),
                                     group |-> i], then)
           ELSE IF ~range_name_ok(group_files)
           THEN /\ Abort("IndexError")
                /\ UNCHANGED <<fs, merges>>
           ELSE \E o \in ReadOutcomes(group_files) :
                    SimpleMerged(simple_merge_pdfs(group_files, range_name(group_files), o)
                                 @@ [start |-> start_idx, count |-> count,
                                     naming |-> "range", volume |-> None,
                                     group |-> i], then)
    /\ i' = i + 1
    /\ UNCHANGED <<prog, os_name, listing, pdf_files, args, rounds, renames>>

\* choice 2 of main: everything into one file
simple_merge_all ==
    /\ pc = "menu"
    /\ prog = "simple_main"
    /\ \E naming \in {<<>>, OutPdf} :
        LET output_name == IF Len(naming) > 0 THEN naming ELSE QuanJiPdf
        IN  \E o \in ReadOutcomes(pdf_files) :
                SimpleMerged(simple_merge_pdfs(pdf_files, output_name, o)
                             @@ [start |-> 0, count |-> Len(pdf_files),
                                 naming |-> "output", volume |-> None, group |-> 0],
                             "done")
    /\ UNCHANGED <<prog, os_name, listing, pdf_files, args, i, rounds, renames>>

\* output_name.endswith('.pdf')
endswith_pdf(name) ==
    Len(name) >= Len(DotPdf) /\ SubSeq(name, Len(name) - Len(DotPdf) + 1, Len(name)) = DotPdf

\* choice 3 of main: a range of the list; the start typed is 1-based
simple_range ==
    /\ pc = "menu"
    /\ prog = "simple_main"
    /\ \E typed_start \in 0..(MaxFiles + 1), typed_count \in TypedCounts,
          naming \in {"1", "2"}, typed_name \in {Out, A2Pdf} :
        LET start == typed_start - 1 IN
        IF typed_count = None
        THEN /\ printed' = printed \cup {"error: not a number"}
             /\ pc' = "done"
             /\ UNCHANGED <<fs, merges>>
        ELSE IF start < 0 \/ start >= Len(pdf_files)
        THEN /\ printed' = printed \cup {"error: start index out of range"}
             /\ pc' = "done"
             /\ UNCHANGED <<fs, merges>>
        ELSE LET count == typed_count[1]
                 end_idx == Min2(start + count, Len(pdf_files))
                 selected_files == PySlice(pdf_files, start, end_idx)
                 tag == [start |-> start, count |-> count, volume |-> None, group |-> 0]
             IN  IF naming = "2"
                 THEN LET output_name == IF endswith_pdf(typed_name) THEN typed_name
                                         ELSE typed_name \o DotPdf
                      IN  \E o \in ReadOutcomes(selected_files) :
                              SimpleMerged(simple_merge_pdfs(selected_files, output_name, o)
                                           @@ tag @@ [naming |-> "output"], "done")
                 ELSE IF ~range_name_ok(selected_files)
                 THEN /\ Abort("IndexError")
                      /\ UNCHANGED <<fs, merges>>
                 ELSE \E o \in ReadOutcomes(selected_files) :
                          SimpleMerged(simple_merge_pdfs(selected_files,
                                           range_name(selected_files), o)
                                       @@ tag @@ [naming |-> "range"], "done")
    /\ UNCHANGED <<prog, os_name, listing, pdf_files, args, i, rounds, renames>>

\* any other choice
simple_invalid_choice ==
    /\ pc = "menu"
    /\ prog = "simple_main"
    /\ printed' = printed \cup {"invalid choice"}
    /\ pc' = "done"
    /\ UNCHANGED <<prog, os_name, fs, listing, pdf_files, args, i, rounds, merges, renames>>

---------------------------------------------------------------------------
(* rename_pdfs.py *)

Juan2Pdf == Juan \o <<50>> \o DotPdf                     \* "卷2.pdf"
Juan3Pdf == Juan \o <<51>> \o DotPdf                     \* "卷3.pdf"
Juan8Pdf == Juan \o <<56>> \o DotPdf                     \* "卷8.pdf"
Juan10Pdf == Juan \o <<49, 48>> \o DotPdf                \* "卷10.pdf"
Juan1PdfBak == Juan1Pdf \o <<46, 98, 97, 107>>           \* "卷1.pdf.bak"
XJuan1Pdf == <<120>> \o Juan1Pdf                         \* "x卷1.pdf"

\* the entries the script's directory may hold
EntryNames ==
    {Juan1Pdf, Juan2Pdf, Juan3Pdf, Juan8Pdf, Juan10Pdf, Juan1PdfBak, XJuan1Pdf, A1Pdf}

RECURSIVE InsertDescending(_, _)
InsertDescending(sorted, x) ==
    IF sorted = <<>> THEN <<x>>
    ELSE IF LexLess(Head(sorted), x) THEN <<x>> \o sorted
    ELSE <<Head(sorted)>> \o InsertDescending(Tail(sorted), x)

RECURSIVE sorted_reverse(_)
\* sorted(names, reverse=True): descending in the order of Python strings
sorted_reverse(names) ==
    IF names = <<>> THEN <<>>
    ELSE InsertDescending(sorted_reverse(SubSeq(names, 1, Len(names) - 1)),
                          names[Len(names)])

\* pattern.match(file) for pattern 卷(\d+)\.pdf: Some(group 1) or None; match
\* anchors the pattern at the start of the name and nowhere else
pattern_match(file) ==
    IF Len(file) >= 2 /\ <<file[1]>> = Juan /\ IsDigit(file[2])
    THEN LET e == DigitRunEnd(file, 2)
         IN  IF Len(file) >= e + Len(DotPdf) /\ SubSeq(file, e + 1, e + Len(DotPdf)) = DotPdf
             THEN Some(SubSeq(file, 2, e))
             ELSE None
    ELSE None

\* the increment of the script
Offset == 2

\* the script up to its for loop: the snapshot of the directory, sorted
rename_pdfs ==
    /\ pc = "init"
    /\ prog = "rename_pdfs"
    /\ pdf_files' = sorted_reverse(listing)
    /\ pc' = IF listing = <<>> THEN "done" ELSE "loop"
    /\ UNCHANGED <<prog, os_name, fs, listing, args, i, rounds, merges, renames, printed>>

\* one pass of the for loop; pdf_files holds the script's list files.
\* os.rename raises when the source is gone and, on Windows, when the target
\* exists; on POSIX it replaces the target silently. The except prints and the
\* loop goes on.
rename_loop ==
    /\ pc = "loop"
    /\ prog = "rename_pdfs"
    /\ LET file == pdf_files[i + 1]
           match == pattern_match(file)
       IN  IF match = None
           THEN UNCHANGED <<fs, renames, printed>>
           ELSE LET num == int(match[1])
                    new_num == num + Offset
                    new_file == Juan \o Str(new_num) \o DotPdf
                    call == [src |-> file, dst |-> new_file]
                IN  IF file \notin DOMAIN fs
                    THEN /\ renames' = Append(renames,
                                call @@ [ok |-> FALSE, replaced |-> FALSE])
                         /\ printed' = printed \cup {"error: rename failed"}
                         /\ UNCHANGED fs
                    ELSE IF new_file \in DOMAIN fs /\ os_name = "nt"
                    THEN /\ renames' = Append(renames,
                                call @@ [ok |-> FALSE, replaced |-> FALSE])
                         /\ printed' = printed \cup {"error: rename failed"}
                         /\ UNCHANGED fs
                    ELSE /\ renames' = Append(renames,
                                call @@ [ok |-> TRUE, replaced |-> new_file \in DOMAIN fs])
                         /\ fs' = [x \in (DOMAIN fs \ {file}) \cup {new_file} |->
                                      IF x = new_file THEN fs[file] ELSE fs[x]]
                         /\ UNCHANGED printed
    /\ i' = i + 1
    /\ pc' = IF i + 1 < Len(pdf_files) THEN "loop" ELSE "done"
    /\ UNCHANGED <<prog, os_name, listing, pdf_files, args, rounds, merges>>

---------------------------------------------------------------------------
(* Specifications *)

InitRun(progs, names, n, systems) ==
    /\ prog \in progs
    /\ os_name \in systems
    /\ listing \in Listings(names, n)
    /\ fs = [x \in Range(listing) |-> OrigContent(x)]
    /\ pdf_files = <<>>
    /\ args = <<>>
    /\ pc = "init"
    /\ i = 0
    /\ rounds = 0
    /\ merges = <<>>
    /\ renames = <<>>
    /\ printed = {}

InitMerger ==
    InitRun({"command_line_mode", "interactive_mode"}, PdfNames, MaxFiles, {"posix"})

InitSimple == InitRun({"simple_main"}, PdfNames, MaxFiles, {"posix"})

InitRename == InitRun({"rename_pdfs"}, EntryNames, MaxEntries, {"posix", "nt"})

Init == InitMerger \/ InitSimple \/ InitRename

NextMerger ==
    \/ PDFMerger_init
    \/ command_line_mode
    \/ command_line_batch
    \/ interactive_mode
    \/ menu_exit
    \/ batch_merge_mode
    \/ batch_merge_loop
    \/ range_merge_mode
    \/ merge_all_mode

NextSimple ==
    \/ simple_main
    \/ simple_batch
    \/ simple_batch_loop
    \/ simple_merge_all
    \/ simple_range
    \/ simple_invalid_choice

NextRename ==
    \/ rename_pdfs
    \/ rename_loop

NextSort ==
    \/ PDFMerger_init
    \/ simple_main

Next == NextMerger \/ NextSimple \/ NextRename

\* every script
Spec == Init /\ [][Next]_vars

\* pdf_merger.py
SpecMerger == InitMerger /\ [][NextMerger]_vars

\* simple_pdf_merger.py
SpecSimple == InitSimple /\ [][NextSimple]_vars

\* rename_pdfs.py
SpecRename == InitRename /\ [][NextRename]_vars

\* the sorted snapshot of both mergers
SpecSort == (InitMerger \/ InitSimple) /\ [][NextSort]_vars

---------------------------------------------------------------------------
(* Properties *)

\* the numeric key as the specification words it: the integer value of the
\* first maximal run of decimal digits of the name, 0 when the name has none
FirstDigitRun(name) ==
    LET ds == {k \in DOMAIN name : IsDigit(name[k])}
    IN  IF ds = {} THEN {}
        ELSE LET b == CHOOSE k \in ds : \A h \in ds : k <= h
             IN  {k \in b..Len(name) : \A h \in b..k : IsDigit(name[h])}

RECURSIVE PlaceValueSum(_, _)
PlaceValueSum(name, run) ==
    IF run = {} THEN 0
    ELSE LET k == CHOOSE x \in run : TRUE
             last == CHOOSE x \in FirstDigitRun(name) : \A h \in FirstDigitRun(name) : h <= x
         IN  (name[k] - 48) * 10 ^ (last - k) + PlaceValueSum(name, run \ {k})

NumericKey(name) == PlaceValueSum(name, FirstDigitRun(name))

\* where a file of the listing stands in the sorted list
PositionIn(list, name) == CHOOSE k \in DOMAIN list : list[k] = name

\* C6: once the file list is built it is a permutation of the enumerated *.pdf
\* files, non-decreasing in the numeric key, and files with equal keys stand in
\* their enumeration order.
C6_SortedStablePermutation ==
    pc # "init" =>
        /\ Len(pdf_files) = Len(listing)
        /\ Range(pdf_files) = Range(listing)
        /\ \A a, b \in DOMAIN pdf_files :
              a < b => NumericKey(pdf_files[a]) <= NumericKey(pdf_files[b])
        /\ \A a, b \in DOMAIN listing :
              a < b /\ NumericKey(listing[a]) = NumericKey(listing[b]) =>
                  PositionIn(pdf_files, listing[a]) < PositionIn(pdf_files, listing[b])

\* a list was sorted that was enumerated out of order, with a file without
\* digits and two files of equal key
C6_Witness ==
    /\ pc # "init"
    /\ listing = <<B2C7Pdf, A2Pdf, APdf>>
    /\ pdf_files = <<APdf, B2C7Pdf, A2Pdf>>

\* a name that is exactly 卷, one or more digits, .pdf
IsJuanDigitsPdf(name) ==
    /\ Len(name) >= Len(Juan) + 1 + Len(DotPdf)
    /\ SubSeq(name, 1, Len(Juan)) = Juan
    /\ SubSeq(name, Len(name) - Len(DotPdf) + 1, Len(name)) = DotPdf
    /\ \A k \in (Len(Juan) + 1)..(Len(name) - Len(DotPdf)) : IsDigit(name[k])

\* the name 卷<n+2>.pdf of a file named 卷<n>.pdf
Incremented(name) == Juan \o Str(NumericKey(name) + 2) \o DotPdf

\* C1: in a directory whose entries are all named 卷<n>.pdf no rename lands on
\* the name of an existing file, and at the end every original file exists
\* exactly once, under the name 卷<n+2>.pdf.
C1_RenameLosesNoFile ==
    (\A k \in DOMAIN listing : IsJuanDigitsPdf(listing[k])) =>
        /\ \A k \in DOMAIN renames : ~renames[k].replaced
        /\ pc = "done" =>
              /\ DOMAIN fs = {Incremented(listing[k]) : k \in DOMAIN listing}
              /\ \A k \in DOMAIN listing :
                    fs[Incremented(listing[k])] = OrigContent(listing[k])

\* C9: only entries named exactly 卷<digits>.pdf are renamed; every other entry
\* keeps its name.
C9_OnlyExactMatchesRenamed ==
    /\ \A k \in DOMAIN renames : IsJuanDigitsPdf(renames[k].src)
    /\ pc = "done" =>
          \A k \in DOMAIN listing :
              ~IsJuanDigitsPdf(listing[k]) =>
                  /\ listing[k] \in DOMAIN fs
                  /\ fs[listing[k]] = OrigContent(listing[k])

\* a call of merge_pdfs reported failure: it returned False or raised
ReportedFailure(m) == m.ret \in {"False", "raised"}

\* C2: a merge whose list of files is empty reports failure and writes no file.
C2_EmptyMergeFails ==
    \A k \in DOMAIN merges :
        merges[k].files = <<>> => ReportedFailure(merges[k]) /\ ~merges[k].wrote

\* C2 for the calls of PDFMerger.merge_pdfs alone
C2_EmptyMergeFails_PDFMerger ==
    \A k \in DOMAIN merges :
        merges[k].by = "PDFMerger" /\ merges[k].files = <<>> =>
            ReportedFailure(merges[k]) /\ ~merges[k].wrote

\* a batch merge was asked for with group size args.count[1]
BatchRun == args # <<>> /\ TruthyInt(args.count)
BatchOver == BatchRun /\ pc # "batch"

\* ceil(L / N) for N > 0
CeilDiv(L, N) == CHOOSE g \in 0..L : (g - 1) * N < L /\ L <= g * N

\* the g-th group (1-based) of the sorted list under group size N
GroupOf(g, N) == SubSeq(pdf_files, (g - 1) * N + 1, Min2(g * N, Len(pdf_files)))

\* C3: a batch merge of L >= 1 files with group size N > 0 issues exactly
\* ceil(L/N) merges, the g-th on the g-th contiguous slice of N files (the last
\* on the L - N*(groups-1) files left).
C3_BatchIssuesEveryGroup ==
    BatchOver /\ args.count[1] > 0 /\ Len(pdf_files) >= 1 =>
        /\ Len(merges) = CeilDiv(Len(pdf_files), args.count[1])
        /\ \A g \in DOMAIN merges : merges[g].files = GroupOf(g, args.count[1])

\* C3 while the loop runs: the merges issued so far are the first groups
C3_GroupsInOrder ==
    BatchRun /\ args.count[1] > 0 =>
        /\ Len(merges) <= CeilDiv(Len(pdf_files), args.count[1])
        /\ \A g \in DOMAIN merges : merges[g].files = GroupOf(g, args.count[1])

ErrorMessages ==
    {"error: count must be positive", "error: not a number", "error occurred",
     "error: no files to merge", "error: start index out of range"}

\* C4: a batch merge asked for with a group size N <= 0 reports an error, does
\* not crash and merges nothing.
C4_NonPositiveCountRefused ==
    /\ args # <<>>
    /\ args.count # None
    /\ args.count[1] <= 0
    /\ pdf_files # <<>>
    /\ pc \notin {"init", "constructed", "batch"}
    =>
    /\ pc # "crashed"
    /\ printed \cap ErrorMessages # {}
    /\ \A k \in DOMAIN merges : ~merges[k].wrote

\* C4 for the prompt of batch_merge_mode alone
C4_NonPositiveCountRefused_Prompt ==
    prog = "interactive_mode" => C4_NonPositiveCountRefused

\* the pages of the sources of m whose read did not fail, in the order of m
PagesOfReadable(m) ==
    Concat([k \in DOMAIN m.files |->
               IF m.files[k] \in m.failed THEN <<>> ELSE m.contents[k]])

\* C5: when the read of a source fails during a merge, a warning is printed,
\* the source adds no page, and the output is written with all pages of the
\* other sources in order.
C5_FailedSourceSkipped ==
    \A k \in DOMAIN merges :
        merges[k].failed # {} =>
            /\ merges[k].failed \subseteq merges[k].warned
            /\ "warning: read failed" \in printed
            /\ merges[k].wrote
            /\ merges[k].pages = PagesOfReadable(merges[k])

\* C5 for the reads of PDFMerger.merge_pdfs that fail on opening the file:
\* what the output is then
C5_FailedSourceWarned_PDFMerger ==
    \A k \in DOMAIN merges :
        merges[k].by = "PDFMerger" /\ merges[k].failed # {} =>
            /\ merges[k].failed \subseteq merges[k].warned
            /\ "warning: read failed" \in printed
            /\ merges[k].wrote

\* C7: in volume naming mode the name is 卷, the decimal of the volume counter
\* handed to the namer, .pdf, for every counter, 0 included.
C7_VolumeNameIsCounter ==
    \A k \in DOMAIN merges :
        merges[k].by = "PDFMerger" /\ merges[k].naming = "volume" =>
            merges[k].output = Juan \o Str(merges[k].volume[1]) \o DotPdf

\* C7 for the counters other than 0
C7_VolumeNameIsCounter_NonZero ==
    \A k \in DOMAIN merges :
        /\ merges[k].by = "PDFMerger"
        /\ merges[k].naming = "volume"
        /\ merges[k].volume[1] # 0
        => merges[k].output = Juan \o Str(merges[k].volume[1]) \o DotPdf

\* s-e.pdf of the keys of the first and last file, each padded to 3 digits
RangeNameOf(files) ==
    Pad3(NumericKey(files[1])) \o Hyphen \o Pad3(NumericKey(files[Len(files)])) \o DotPdf

\* C8: in range naming mode every group of a batch merge gets a name, and the
\* name of a merge is the 3-digit padded key of its first file, '-', the
\* 3-digit padded key of its last file, .pdf.
C8_RangeName ==
    /\ \A k \in DOMAIN merges :
          merges[k].naming = "range" /\ merges[k].files # <<>> =>
              merges[k].output = RangeNameOf(merges[k].files)
    /\ BatchRun /\ args.count[1] > 0 => "IndexError" \notin printed

\* C8 for PDFMerger.generate_filename alone
C8_RangeName_PDFMerger == prog # "simple_main" => C8_RangeName

\* C10: in a batch merge no output is written under the name of a source of a
\* later group.
C10_NoLaterSourceOverwritten ==
    BatchRun /\ args.count[1] > 0 =>
        \A k \in DOMAIN merges :
            merges[k].wrote =>
                \A j \in (merges[k].start + Len(merges[k].files) + 1)..Len(pdf_files) :
                    pdf_files[j] # merges[k].output

====
